---- MODULE Spec2Model ----
(***************************************************************************)
(* Model of darwin/exporter/formats/darwin.py: the Darwin JSON exporter.   *)
(*                                                                         *)
(* Python values are tagged tuples so that any two of them can be compared.*)
(* A dict is its sequence of <<key, value>> items in insertion order, which*)
(* is the order json.dump emits them in.  The data mapping of an annotation*)
(* is a mutable object owned by the caller: annotations hold its identity  *)
(* (an index into heap) and two annotations may hold the same one.         *)
(***************************************************************************)
EXTENDS Integers, Sequences, FiniteSets, TLC

VARIABLES
  heap,             \* identity -> current items of that caller-owned data mapping
  heap0,            \* the data mappings as the caller handed them over
  annotation_files, \* export's first argument, a sequence of AnnotationFile
  id,               \* enumerate() ordinal of the record export handles next
  pc,               \* "idle" | "running" | "done" | "failed" | "ready" | "returned"
  exc,              \* class of the exception that left the call, or "none"
  bad,              \* identity of the data mapping whose lookup failed, or 0
  call,             \* number of export calls started on annotation_files
  files,            \* the output directory: output name -> file content
  base,             \* the output directory when the current call started
  log,              \* <<name, content>> of each write the current call completed
  first,            \* how the first call ended and the output directory it left
  fn,               \* builder called directly ("" when none)
  arg,              \* its arguments
  ret               \* its outcome: [exc, val, heap, bad]

vars == <<heap, heap0, annotation_files, id, pc, exc, bad, call, files, base,
          log, first, fn, arg, ret>>

-----------------------------------------------------------------------------
(* Python values *)

None == <<"n">>
Str(s) == <<"s", s>>
Num(n) == <<"i", n>>
Bool(b) == <<"b", b>>
List(l) == <<"l", l>>
Dict(d) == <<"d", d>>
Ref(i) == <<"r", i>>
FileName(parts) == <<"f", parts>>

\* bool(v) for the values the exporter tests
Truthy(v) ==
  CASE v[1] = "n" -> FALSE
    [] v[1] = "s" -> v[2] # ""
    [] v[1] = "l" -> v[2] # <<>>
    [] v[1] = "d" -> v[2] # <<>>
    [] OTHER -> TRUE

(* dict operations, on the item sequence *)

Keys(d) == {d[i][1] : i \in 1..Len(d)}

HasKey(d, k) == \E i \in 1..Len(d) : d[i][1] = k

Get(d, k) == d[CHOOSE i \in 1..Len(d) : d[i][1] = k][2]

\* d[k] = v : an existing key keeps its place, a new one goes last
Put(d, k, v) ==
  IF HasKey(d, k)
    THEN [i \in 1..Len(d) |-> IF d[i][1] = k THEN <<k, v>> ELSE d[i]]
    ELSE Append(d, <<k, v>>)

\* del d[k]
DelKey(d, k) == SelectSeq(d, LAMBDA e : e[1] # k)

\* d.update(e), also {**d, **e}
RECURSIVE Update(_, _)
Update(d, e) ==
  IF e = <<>> THEN d ELSE Update(Put(d, e[1][1], e[1][2]), Tail(e))

\* outcome of a call: the exception class or "none", the value returned, the
\* heap the call leaves, and the mapping a failed lookup was made on
Return(v, h) == [exc |-> "none", val |-> v, heap |-> h, bad |-> 0]
Raise(e, h, i) == [exc |-> e, val |-> None, heap |-> h, bad |-> i]

-----------------------------------------------------------------------------
(* The builders *)

_build_author(author) ==
  << <<"full_name", Str(author.name)>>, <<"email", Str(author.email)>> >>

\* falls off the end, returning None, for any other kind
_build_sub_annotation(sub) ==
  IF sub.annotation_type = "instance_id"
    THEN Dict(<< <<sub.annotation_type, Dict(<< <<"value", sub.data>> >>)>> >>)
  ELSE IF sub.annotation_type = "attributes"
    THEN Dict(<< <<sub.annotation_type, sub.data>> >>)
  ELSE IF sub.annotation_type = "text"
    THEN Dict(<< <<sub.annotation_type, Dict(<< <<"text", sub.data>> >>)>> >>)
  ELSE None

AuthorList(authors) ==
  List([i \in 1..Len(authors[2]) |-> Dict(_build_author(authors[2][i]))])

\* _build_authorship with the two dicts merged the other way round
_build_authorship_swapped(annotation) ==
  LET annotators == IF Truthy(annotation.annotators)
                      THEN << <<"annotators", AuthorList(annotation.annotators)>> >>
                      ELSE <<>>
      reviewers == IF Truthy(annotation.reviewers)
                     THEN << <<"annotators", AuthorList(annotation.reviewers)>> >>
                     ELSE <<>>
  IN  Update(reviewers, annotators)

_build_authorship(annotation) ==
  LET annotators == IF Truthy(annotation.annotators)
                      THEN << <<"annotators", AuthorList(annotation.annotators)>> >>
                      ELSE <<>>
      reviewers == IF Truthy(annotation.reviewers)
                     THEN << <<"annotators", AuthorList(annotation.reviewers)>> >>
                     ELSE <<>>
  IN  Update(annotators, reviewers)

\* _build_legacy_annotation_data with additional_paths = data["paths"], the
\* slice [1:] forgotten
_build_legacy_annotation_data_unsliced(annotation_class, data, h) ==
  IF annotation_class.annotation_type = "complex_polygon"
    THEN IF ~HasKey(h[data], "paths")
           THEN Raise("KeyError", h, data)
         ELSE IF Get(h[data], "paths")[2] = <<>>
           THEN Raise("IndexError", h, data)
         ELSE
           LET paths == Get(h[data], "paths")[2]
               d1 == Put(h[data], "path", paths[1])
               d2 == Put(d1, "additional_paths", List(paths))
               d3 == DelKey(d2, "paths")
               key == IF Truthy(annotation_class.annotation_internal_type)
                        THEN annotation_class.annotation_internal_type[2]
                        ELSE "polygon"
           IN  Return(<< <<key, Ref(data)>> >>, [h EXCEPT ![data] = d3])
    ELSE Return(<< <<annotation_class.annotation_type, Ref(data)>> >>, h)

\* data is the identity of the caller's mapping; the returned dict holds that
\* same object as its value
_build_legacy_annotation_data(annotation_class, data, h) ==
  IF annotation_class.annotation_type = "complex_polygon"
    THEN IF ~HasKey(h[data], "paths")
           THEN Raise("KeyError", h, data)
         ELSE IF Get(h[data], "paths")[2] = <<>>
           THEN Raise("IndexError", h, data)
         ELSE
           LET paths == Get(h[data], "paths")[2]
               d1 == Put(h[data], "path", paths[1])
               d2 == Put(d1, "additional_paths", List(Tail(paths)))
               d3 == DelKey(d2, "paths")
               key == IF Truthy(annotation_class.annotation_internal_type)
                        THEN annotation_class.annotation_internal_type[2]
                        ELSE "polygon"
           IN  Return(<< <<key, Ref(data)>> >>, [h EXCEPT ![data] = d3])
    ELSE Return(<< <<annotation_class.annotation_type, Ref(data)>> >>, h)

\* the loop over annotation.subs; dict.update(None) raises TypeError
RECURSIVE BuildSubs(_, _)
UpdateSubs(subs, json_subs, r) ==
  IF r = None
    THEN [exc |-> "TypeError", val |-> json_subs]
    ELSE BuildSubs(Tail(subs), Update(json_subs, r[2]))

BuildSubs(subs, json_subs) ==
  IF subs = <<>> THEN [exc |-> "none", val |-> json_subs]
  ELSE UpdateSubs(subs, json_subs, _build_sub_annotation(Head(subs)))

\* base_json with the type payload spread first, the other entries over it
base_json_legacy_first(annotation, json_subs, legacy) ==
  Put(Update(Update(legacy, json_subs), _build_authorship(annotation)),
      "name", Str(annotation.annotation_class.name))

\* the dict display of base_json: its entries are evaluated, and merged, in
\* the order written
base_json(annotation, json_subs, legacy) ==
  Put(Update(Update(json_subs, _build_authorship(annotation)), legacy),
      "name", Str(annotation.annotation_class.name))

AddSlots(annotation, skip_slots, json) ==
  IF skip_slots
    THEN json
    ELSE Put(json, "slot_names", List(annotation.slot_names))

\* subs and legacy are the outcomes of the loop and of the legacy shape step;
\* the latter is not reached when the loop raised
ImageAnnotation(annotation, skip_slots, h, subs, legacy) ==
  IF subs.exc # "none" THEN Raise(subs.exc, h, 0)
  ELSE IF legacy.exc # "none" THEN legacy
  ELSE Return(AddSlots(annotation, skip_slots,
                       base_json(annotation, subs.val, legacy.val)),
              legacy.heap)

_build_image_annotation(annotation, skip_slots, h) ==
  ImageAnnotation(annotation, skip_slots, h,
                  BuildSubs(annotation.subs, <<>>),
                  _build_legacy_annotation_data(annotation.annotation_class,
                                                annotation.data, h))

\* the callback _build_video_annotation hands to get_data, as the closure it is:
\* lambda annotation, _: _build_image_annotation(annotation, skip_slots=...)
post_processing(closure, annotation, h) ==
  _build_image_annotation(annotation, closure.skip_slots, h)

\* VideoAnnotation.get_data: the frame-keyed content, each frame's payload made
\* by the callback, then the aggregation's other top-level entries
RECURSIVE GetFrames(_, _, _, _, _, _)
AddFrame(frames, i, only_keyframes, closure, acc, r) ==
  IF r.exc # "none" THEN r
  ELSE GetFrames(frames, i + 1, only_keyframes, closure,
                 Put(acc, ToString(i),
                     Dict(Put(r.val, "keyframe", Bool(frames[i].keyframe)))),
                 r.heap)

GetFrames(frames, i, only_keyframes, closure, acc, h) ==
  IF i > Len(frames) THEN Return(acc, h)
  ELSE IF only_keyframes /\ ~frames[i].keyframe
    THEN GetFrames(frames, i + 1, only_keyframes, closure, acc, h)
  ELSE AddFrame(frames, i, only_keyframes, closure, acc,
                post_processing(closure, frames[i].annotation, h))

Aggregate(annotation, frames) ==
  IF frames.exc # "none" THEN frames
  ELSE Return(Update(<< <<"frames", Dict(frames.val)>> >>, annotation.other),
              frames.heap)

get_data(annotation, only_keyframes, closure, h) ==
  Aggregate(annotation,
            GetFrames(annotation.frames, 1, only_keyframes, closure, <<>>, h))

\* the dict display with the aggregation spread last, over name, slot_names and
\* the authorship block
VideoAnnotationJson_spread_last(annotation, agg) ==
  IF agg.exc # "none" THEN agg
  ELSE Return(Update(Update(<< <<"name", Str(annotation.annotation_class.name)>>,
                               <<"slot_names", List(annotation.slot_names)>> >>,
                            _build_authorship(annotation)),
                     agg.val),
              agg.heap)

\* the dict display of _build_video_annotation around the aggregation's outcome
VideoAnnotationJson(annotation, agg) ==
  IF agg.exc # "none" THEN agg
  ELSE Return(Update(Put(Put(agg.val,
                             "name", Str(annotation.annotation_class.name)),
                         "slot_names", List(annotation.slot_names)),
                     _build_authorship(annotation)),
              agg.heap)

_build_video_annotation(annotation, h) ==
  VideoAnnotationJson(annotation,
                      get_data(annotation, FALSE, [skip_slots |-> TRUE], h))

\* isinstance(annotation, dt.VideoAnnotation)
_build_annotation(annotation, h) ==
  IF annotation.kind = "video"
    THEN _build_video_annotation(annotation, h)
    ELSE _build_image_annotation(annotation, FALSE, h)

\* list(map(_build_annotation, annotation_file.annotations))
RECURSIVE MapAnnotations(_, _, _)
MapNext(annotations, acc, r) ==
  IF r.exc # "none" THEN r
  ELSE MapAnnotations(Tail(annotations), Append(acc, Dict(r.val)), r.heap)

MapAnnotations(annotations, acc, h) ==
  IF annotations = <<>> THEN Return(List(acc), h)
  ELSE MapNext(annotations, acc, _build_annotation(Head(annotations), h))

\* the document around its image block and the outcome of mapping the annotations
Document(image, anns) ==
  IF anns.exc # "none" THEN anns
  ELSE Return(<< <<"image", Dict(image)>>, <<"annotations", anns.val>> >>,
              anns.heap)

ImageBlock(annotation_file) ==
  << <<"seq", annotation_file.seq>>,
     <<"width", annotation_file.image_width>>,
     <<"height", annotation_file.image_height>>,
     <<"filename", FileName(annotation_file.filename)>>,
     <<"original_filename", FileName(annotation_file.filename)>>,
     <<"url", annotation_file.image_url>>,
     <<"thumbnail_url", annotation_file.image_thumbnail_url>>,
     <<"path", annotation_file.remote_path>>,
     <<"workview_url", annotation_file.workview_url>> >>

VideoBlock(annotation_file) ==
  << <<"seq", annotation_file.seq>>,
     <<"frame_urls", annotation_file.frame_urls>>,
     <<"frame_count", Num(IF Truthy(annotation_file.frame_urls)
                            THEN Len(annotation_file.frame_urls[2]) ELSE 0)>>,
     <<"width", annotation_file.image_width>>,
     <<"height", annotation_file.image_height>>,
     <<"filename", FileName(annotation_file.filename)>>,
     <<"original_filename", FileName(annotation_file.filename)>>,
     <<"thumbnail_url", annotation_file.image_thumbnail_url>>,
     <<"url", annotation_file.image_url>>,
     <<"path", annotation_file.remote_path>>,
     <<"workview_url", annotation_file.workview_url>> >>

_build_image_json(annotation_file, h) ==
  Document(ImageBlock(annotation_file),
           MapAnnotations(annotation_file.annotations, <<>>, h))

_build_video_json(annotation_file, h) ==
  Document(VideoBlock(annotation_file),
           MapAnnotations(annotation_file.annotations, <<>>, h))

_build_json(annotation_file, h) ==
  IF annotation_file.is_video
    THEN _build_video_json(annotation_file, h)
    ELSE _build_image_json(annotation_file, h)

-----------------------------------------------------------------------------
(* Writing a document *)

\* the suffix appended to the whole name, as string concatenation would
with_suffix_appended(filename, suffix) == Append(filename, suffix)

\* a file name is its dot-separated parts: <<"img", "png">> is img.png.
\* Path.with_suffix replaces the last suffix, and appends when there is none
with_suffix(filename, suffix) ==
  IF Len(filename) > 1
    THEN Append(SubSeq(filename, 1, Len(filename) - 1), suffix)
    ELSE Append(filename, suffix)

\* json.dump: the text of a value as its sequence of tokens (indent=1 only adds
\* fixed white space between them).  A data mapping is read when the text is
\* made, which is after the whole document was built
RECURSIVE json_dump(_, _), DumpList(_, _), DumpItems(_, _), DumpName(_)
json_dump(v, h) ==
  CASE v[1] = "n" -> <<"null">>
    [] v[1] = "s" -> <<"\"", v[2], "\"">>
    [] v[1] = "i" -> <<ToString(v[2])>>
    [] v[1] = "b" -> IF v[2] THEN <<"true">> ELSE <<"false">>
    [] v[1] = "f" -> <<"\"">> \o DumpName(v[2]) \o <<"\"">>
    [] v[1] = "l" -> <<"[">> \o DumpList(v[2], h) \o <<"]">>
    [] v[1] = "d" -> <<"{">> \o DumpItems(v[2], h) \o <<"}">>
    [] v[1] = "r" -> <<"{">> \o DumpItems(h[v[2]], h) \o <<"}">>

DumpList(l, h) ==
  IF l = <<>> THEN <<>>
  ELSE IF Len(l) = 1 THEN json_dump(l[1], h)
  ELSE json_dump(l[1], h) \o <<",">> \o DumpList(Tail(l), h)

DumpItems(d, h) ==
  IF d = <<>> THEN <<>>
  ELSE LET item == <<"\"", d[1][1], "\"", ":">> \o json_dump(d[1][2], h)
       IN  IF Len(d) = 1 THEN item ELSE item \o <<",">> \o DumpItems(Tail(d), h)

DumpName(parts) ==
  IF Len(parts) = 1 THEN <<parts[1]>>
  ELSE <<parts[1], ".">> \o DumpName(Tail(parts))

-----------------------------------------------------------------------------
(* The annotation model the exporter reads (darwin.datatypes) *)

AnnotationClass(name, annotation_type, annotation_internal_type) ==
  [name |-> name, annotation_type |-> annotation_type,
   annotation_internal_type |-> annotation_internal_type]

AnnotationAuthor(name, email) == [name |-> name, email |-> email]

SubAnnotation(annotation_type, data) ==
  [annotation_type |-> annotation_type, data |-> data]

Annotation(annotation_class, data, subs, annotators, reviewers, slot_names) ==
  [kind |-> "image", annotation_class |-> annotation_class, data |-> data,
   subs |-> subs, annotators |-> annotators, reviewers |-> reviewers,
   slot_names |-> slot_names]

VideoAnnotation(annotation_class, frames, other, annotators, reviewers, slot_names) ==
  [kind |-> "video", annotation_class |-> annotation_class, frames |-> frames,
   other |-> other, annotators |-> annotators, reviewers |-> reviewers,
   slot_names |-> slot_names]

AnnotationFile(filename, is_video, frame_urls, annotations) ==
  [filename |-> filename, is_video |-> is_video, frame_urls |-> frame_urls,
   annotations |-> annotations, seq |-> Num(1),
   image_width |-> Num(640), image_height |-> Num(480),
   image_url |-> Str("url"), image_thumbnail_url |-> Str("thumb"),
   remote_path |-> Str("/"), workview_url |-> None]

-----------------------------------------------------------------------------
(* Inputs *)

MaxFiles == 2    \* records in one export call
MaxCalls == 2    \* export calls on the same records and directory
MaxSubs == 2     \* sub-annotations of an annotation
MaxAuthors == 1  \* authors in an annotator or reviewer list
MaxFrames == 2   \* frames of a video annotation

PathA == List(<<Str("p1"), Str("p2")>>)
PathB == List(<<Str("p3"), Str("p4")>>)

\* the data mappings the caller owns, by identity
DataPool ==
  << << <<"paths", List(<<PathA, PathB>>)>> >>,
     << <<"bounding_box", Str("bb")>>, <<"paths", List(<<PathA>>)>> >>,
     << <<"path", PathA>> >>,
     << <<"paths", List(<<>>)>> >>,
     << <<"path", Str("old")>>, <<"paths", List(<<PathB, PathA>>)>> >> >>

DataIds == 1..Len(DataPool)

Alice == AnnotationAuthor("A", "a@x.com")
Bob == AnnotationAuthor("B", "b@x.com")

RECURSIVE SeqsUpTo(_, _)
SeqsUpTo(S, n) ==
  IF n = 0 THEN {<<>>}
  ELSE LET shorter == SeqsUpTo(S, n - 1)
       IN  shorter \cup {Append(q, x) : q \in shorter, x \in S}

Polygon == AnnotationClass("car", "polygon", None)
ComplexPolygon == AnnotationClass("lake", "complex_polygon", None)

Slots == {<<>>, <<Str("0")>>}

\* the records export is given in the export specification
ExportAnnotations ==
  { Annotation(Polygon, 3, <<>>, None, None, <<Str("0")>>),
    Annotation(Polygon, 1, <<>>, None, None, <<Str("0")>>),
    Annotation(ComplexPolygon, 1, <<SubAnnotation("text", Str("hello"))>>,
               List(<<Alice>>), List(<<Bob>>), <<Str("0")>>),
    Annotation(ComplexPolygon, 3, <<>>, List(<<Alice>>), None, <<>>) }

ExportVideo ==
  VideoAnnotation(Polygon,
    << [annotation |-> Annotation(ComplexPolygon, 2, <<>>, None, None, <<Str("0")>>),
        keyframe |-> TRUE],
       [annotation |-> Annotation(Polygon, 3, <<>>, None, None, <<Str("0")>>),
        keyframe |-> FALSE] >>,
    << <<"interpolated", Bool(FALSE)>> >>, None, List(<<Bob>>), <<Str("0")>>)

FileNames == {<<"a", "png">>, <<"a", "jpg">>, <<"b">>}

ExportFiles ==
  {AnnotationFile(n, FALSE, None, <<a>>) : n \in FileNames, a \in ExportAnnotations}
  \cup {AnnotationFile(n, TRUE, List(<<Str("f1"), Str("f2")>>), <<ExportVideo>>) :
          n \in FileNames}
  \cup {AnnotationFile(<<"b">>, FALSE, None, <<>>),
        AnnotationFile(<<"b">>, TRUE, None, <<>>)}

\* the arguments of the builders in the builder specification
TypeNames == {"polygon", "text", "annotators", "name", "slot_names"}

InternalTypes == {None, Str(""), Str("text"), Str("mask")}

Classes ==
  {AnnotationClass("car", t, None) : t \in TypeNames}
  \cup {AnnotationClass("lake", "complex_polygon", i) : i \in InternalTypes}

Subs ==
  { SubAnnotation("instance_id", Num(7)),
    SubAnnotation("attributes", List(<<Str("red")>>)),
    SubAnnotation("text", Str("hello")),
    SubAnnotation("text", Str("bye")),
    SubAnnotation("directional_vector", Str("v")) }

AuthorLists == {None} \cup {List(q) : q \in SeqsUpTo({Alice, Bob}, MaxAuthors)}

\* <<annotators, reviewers>> of the annotations given to the annotation builders
AuthorPairs ==
  { <<None, None>>, <<List(<<Alice>>), List(<<>>)>>, <<None, List(<<Bob>>)>>,
    <<List(<<Alice>>), List(<<Bob>>)>> }

FrameAnnotations ==
  { Annotation(Polygon, 3, <<>>, None, None, <<Str("0")>>),
    Annotation(ComplexPolygon, 1, <<SubAnnotation("text", Str("hello"))>>,
               List(<<Alice>>), None, <<Str("0")>>),
    Annotation(ComplexPolygon, 3, <<>>, None, None, <<>>),
    Annotation(Polygon, 2, <<SubAnnotation("directional_vector", Str("v"))>>,
               None, None, <<>>) }

Frames == [annotation : FrameAnnotations, keyframe : BOOLEAN]

\* top-level entries the aggregation carries besides the frames
Others ==
  { <<>>,
    << <<"segments", List(<<Num(0), Num(2)>>)>>, <<"name", Str("other")>> >>,
    << <<"annotators", List(<<>>)>>, <<"slot_names", List(<<Str("9")>>)>> >> }

-----------------------------------------------------------------------------
(* export and _export_file *)

\* what open(path, "w") and json.dump can do: write the text, fail to open
\* (nothing changes), or fail while writing (the file holds a proper prefix)
WriteOutcomes == {"ok", "open", "dump"}

Cuts(text) == {0, Len(text) \div 2}

Init ==
  /\ heap = DataPool
  /\ heap0 = DataPool
  /\ annotation_files \in SeqsUpTo(ExportFiles, MaxFiles)
  /\ id = 0
  /\ pc = "idle"
  /\ exc = "none"
  /\ bad = 0
  /\ call = 0
  /\ files = <<>>
  /\ base = <<>>
  /\ log = <<>>
  /\ first = [pc |-> "idle", files |-> <<>>]
  /\ fn = ""
  /\ arg = <<>>
  /\ ret = <<>>

\* the caller calls export(annotation_files, output_dir)
export ==
  /\ pc \in {"idle", "done", "failed"}
  /\ call < MaxCalls
  /\ call' = call + 1
  /\ pc' = "running"
  /\ id' = 0
  /\ exc' = "none"
  /\ bad' = 0
  /\ base' = files
  /\ log' = <<>>
  /\ first' = IF call = 1 THEN [pc |-> pc, files |-> files] ELSE first
  /\ UNCHANGED <<heap, heap0, annotation_files, files, fn, arg, ret>>

\* open(output_file_path, "w") and json.dump(output, f, ...)
WriteFile(output_file_path, text) ==
  \E outcome \in WriteOutcomes :
    \/ /\ outcome = "ok"
       /\ files' = (output_file_path :> text) @@ files
       /\ log' = Append(log, <<output_file_path, text>>)
       /\ id' = id + 1
       /\ UNCHANGED <<pc, exc, bad>>
    \/ /\ outcome = "open"
       /\ pc' = "failed"
       /\ exc' = "OSError"
       /\ UNCHANGED <<id, files, log, bad>>
    \/ /\ outcome = "dump"
       /\ \E k \in Cuts(text) :
            files' = (output_file_path :> SubSeq(text, 1, k)) @@ files
       /\ pc' = "failed"
       /\ exc' = "OSError"
       /\ UNCHANGED <<id, log, bad>>

\* _export_file with the file opened before the document is built
ExportFile_open_first(annotation_file, output) ==
  /\ heap' = output.heap
  /\ IF output.exc # "none"
       THEN /\ pc' = "failed"
            /\ exc' = output.exc
            /\ bad' = output.bad
            /\ files' = (with_suffix(annotation_file.filename, "json") :> <<>>)
                          @@ files
            /\ UNCHANGED <<id, log>>
       ELSE WriteFile(with_suffix(annotation_file.filename, "json"),
                      json_dump(Dict(output.val), output.heap))

\* output is the outcome of _build_json(annotation_file)
ExportFile(annotation_file, output) ==
  /\ heap' = output.heap
  /\ IF output.exc # "none"
       THEN /\ pc' = "failed"
            /\ exc' = output.exc
            /\ bad' = output.bad
            /\ UNCHANGED <<id, files, log>>
       ELSE WriteFile(with_suffix(annotation_file.filename, "json"),
                      json_dump(Dict(output.val), output.heap))

\* one turn of export's loop: _export_file(annotation_file, id, output_dir)
_export_file ==
  /\ pc = "running"
  /\ id < Len(annotation_files)
  /\ ExportFile(annotation_files[id + 1],
                _build_json(annotation_files[id + 1], heap))
  /\ UNCHANGED <<heap0, annotation_files, call, base, first, fn, arg, ret>>

\* the loop is exhausted and export returns
export_return ==
  /\ pc = "running"
  /\ id = Len(annotation_files)
  /\ pc' = "done"
  /\ UNCHANGED <<heap, heap0, annotation_files, id, exc, bad, call, files, base,
                 log, first, fn, arg, ret>>

Next == export \/ _export_file \/ export_return

Spec == Init /\ [][Next]_vars

-----------------------------------------------------------------------------
(* The builders called on their own *)

\* the arguments each builder is called with
Args(name) ==
  CASE name = "_build_authorship" ->
         [annotators : AuthorLists, reviewers : AuthorLists]
    [] name = "_build_legacy_annotation_data" ->
         [annotation_class : Classes, data : DataIds]
    [] name = "_build_image_annotation" ->
         { [annotation |-> Annotation(c, d, s, a[1], a[2], n), skip_slots |-> k] :
             c \in Classes, d \in DataIds, s \in SeqsUpTo(Subs, MaxSubs),
             a \in AuthorPairs, n \in Slots, k \in BOOLEAN }
    [] name = "_build_video_annotation" ->
         { [annotation |-> VideoAnnotation(Polygon, f, o, a[1], a[2], n)] :
             f \in SeqsUpTo(Frames, MaxFrames), o \in Others,
             a \in AuthorPairs, n \in Slots }

Builders ==
  {"_build_authorship", "_build_legacy_annotation_data",
   "_build_image_annotation", "_build_video_annotation"}

InitBuild ==
  /\ heap = DataPool
  /\ heap0 = DataPool
  /\ annotation_files = <<>>
  /\ id = 0
  /\ pc = "ready"
  /\ exc = "none"
  /\ bad = 0
  /\ call = 0
  /\ files = <<>>
  /\ base = <<>>
  /\ log = <<>>
  /\ first = [pc |-> "idle", files |-> <<>>]
  /\ fn \in Builders
  /\ arg \in Args(fn)
  /\ ret = <<>>

\* the call returns or raises: r is its outcome
Called(name, r) ==
  /\ pc = "ready"
  /\ fn = name
  /\ pc' = "returned"
  /\ ret' = r
  /\ heap' = r.heap
  /\ exc' = r.exc
  /\ bad' = r.bad
  /\ UNCHANGED <<heap0, annotation_files, id, call, files, base, log, first,
                 fn, arg>>

call_build_authorship ==
  /\ fn = "_build_authorship"
  /\ Called("_build_authorship", Return(_build_authorship(arg), heap))

call_build_legacy_annotation_data ==
  /\ fn = "_build_legacy_annotation_data"
  /\ Called("_build_legacy_annotation_data",
            _build_legacy_annotation_data(arg.annotation_class, arg.data, heap))

call_build_image_annotation ==
  /\ fn = "_build_image_annotation"
  /\ Called("_build_image_annotation",
            _build_image_annotation(arg.annotation, arg.skip_slots, heap))

call_build_video_annotation ==
  /\ fn = "_build_video_annotation"
  /\ Called("_build_video_annotation",
            _build_video_annotation(arg.annotation, heap))

NextBuild ==
  \/ call_build_authorship
  \/ call_build_legacy_annotation_data
  \/ call_build_image_annotation
  \/ call_build_video_annotation

SpecBuild == InitBuild /\ [][NextBuild]_vars

-----------------------------------------------------------------------------
(* Properties of the builders, under SpecBuild *)

NonEmpty(list) == list # None /\ list # List(<<>>)

Author(a) == Dict(<< <<"full_name", Str(a.name)>>, <<"email", Str(a.email)>> >>)

Authors(list) == List([i \in 1..Len(list[2]) |-> Author(list[2][i])])

\* the authorship block as section 4.4 words it
Authorship(annotation) ==
  IF NonEmpty(annotation.reviewers)
    THEN << <<"annotators", Authors(annotation.reviewers)>> >>
  ELSE IF NonEmpty(annotation.annotators)
    THEN << <<"annotators", Authors(annotation.annotators)>> >>
  ELSE <<>>

Returned(name) == pc = "returned" /\ fn = name

\* C5: _build_authorship returns a dictionary with at most the one key
\* annotators: the reviewers, mapped to {full_name, email} in input order, when
\* the reviewer list is non-empty; else the annotators so mapped when that list
\* is non-empty; and no key at all when both are empty or absent.
C5_Authorship ==
  Returned("_build_authorship") =>
    /\ ret.exc = "none"
    /\ Keys(ret.val) \subseteq {"annotators"}
    /\ Len(ret.val) <= 1
    /\ ret.val = Authorship(arg)
    /\ (NonEmpty(arg.annotators) \/ NonEmpty(arg.reviewers)) <=> ret.val # <<>>

C5_Witness ==
  /\ Returned("_build_authorship")
  /\ arg.annotators = List(<<Alice>>)
  /\ arg.reviewers = List(<<Bob>>)
  /\ ret.val = << <<"annotators", List(<<Author(Bob)>>)>> >>

\* the key of the type payload as section 4.5 words it; an empty override
\* counts as not set
TypeKey(annotation_class) ==
  IF annotation_class.annotation_type # "complex_polygon"
    THEN annotation_class.annotation_type
  ELSE IF annotation_class.annotation_internal_type \in {None, Str("")}
    THEN "polygon"
  ELSE annotation_class.annotation_internal_type[2]

HasPaths(d) == HasKey(d, "paths") /\ Get(d, "paths")[2] # <<>>

Reshaped == {"paths", "path", "additional_paths"}

\* C6: for a complex_polygon whose data has a non-empty paths list, the legacy
\* shape step returns the single key TypeKey (the override if set, else polygon)
\* with path = the first of paths, additional_paths = the rest in order, no
\* paths key, and every other field as it was; for any other class the single
\* key is the annotation type and the value is the data mapping, unchanged.
C6_LegacyShape ==
  Returned("_build_legacy_annotation_data") =>
    LET cls == arg.annotation_class
        before == heap0[arg.data]
        after == heap[arg.data]
    IN  IF cls.annotation_type = "complex_polygon"
          THEN HasPaths(before) =>
                 /\ ret.exc = "none"
                 /\ ret.val = << <<TypeKey(cls), Ref(arg.data)>> >>
                 /\ HasKey(after, "path")
                 /\ Get(after, "path") = Get(before, "paths")[2][1]
                 /\ HasKey(after, "additional_paths")
                 /\ Get(after, "additional_paths")
                      = List(Tail(Get(before, "paths")[2]))
                 /\ ~HasKey(after, "paths")
                 /\ Keys(after) \ Reshaped = Keys(before) \ Reshaped
                 /\ \A k \in Keys(before) \ Reshaped : Get(after, k) = Get(before, k)
          ELSE /\ ret.exc = "none"
               /\ ret.val = << <<cls.annotation_type, Ref(arg.data)>> >>
               /\ after = before

C6_Witness ==
  /\ Returned("_build_legacy_annotation_data")
  /\ arg.annotation_class.annotation_type = "complex_polygon"
  /\ arg.annotation_class.annotation_internal_type = Str("mask")
  /\ arg.data = 2
  /\ ret.val = << <<"mask", Ref(2)>> >>
  /\ Get(heap[2], "additional_paths") = List(<<>>)
  /\ Get(heap[2], "bounding_box") = Str("bb")

KnownKinds == {"instance_id", "attributes", "text"}

\* the entry section 4.3 gives a sub-annotation of a known kind
SubEntry(sub) ==
  CASE sub.annotation_type = "instance_id" -> Dict(<< <<"value", sub.data>> >>)
    [] sub.annotation_type = "attributes" -> sub.data
    [] sub.annotation_type = "text" -> Dict(<< <<"text", sub.data>> >>)

LastOfKind(subs, k) ==
  subs[CHOOSE i \in 1..Len(subs) :
         /\ subs[i].annotation_type = k
         /\ \A j \in (i + 1)..Len(subs) : subs[j].annotation_type # k]

Kinds(subs) == {subs[i].annotation_type : i \in 1..Len(subs)}

\* the value the ordered merge of section 4.3 leaves under key k
Merged(annotation, skip_slots, k) ==
  IF k = "slot_names" /\ ~skip_slots THEN List(annotation.slot_names)
  ELSE IF k = "name" THEN Str(annotation.annotation_class.name)
  ELSE IF k = TypeKey(annotation.annotation_class) THEN Ref(annotation.data)
  ELSE IF k = "annotators" /\ Authorship(annotation) # <<>>
    THEN Authorship(annotation)[1][2]
  ELSE SubEntry(LastOfKind(annotation.subs, k))

MergedKeys(annotation, skip_slots) ==
  Kinds(annotation.subs)
  \cup (IF Authorship(annotation) # <<>> THEN {"annotators"} ELSE {})
  \cup {TypeKey(annotation.annotation_class), "name"}
  \cup (IF skip_slots THEN {} ELSE {"slot_names"})

\* C7: the payload _build_image_annotation returns is the merge of the
\* sub-annotation payloads, then the authorship block, then the type payload,
\* then name, a later step winning every key collision; slot_names equal to the
\* annotation's slot names is then present exactly when slots are not skipped.
C7_ImageMerge ==
  (Returned("_build_image_annotation") /\ ret.exc = "none") =>
    /\ Keys(ret.val) = MergedKeys(arg.annotation, arg.skip_slots)
    /\ Len(ret.val) = Cardinality(Keys(ret.val))
    /\ \A k \in Keys(ret.val) :
         Get(ret.val, k) = Merged(arg.annotation, arg.skip_slots, k)
    /\ Get(ret.val, "name") = Str(arg.annotation.annotation_class.name)
    /\ (/\ HasKey(ret.val, "slot_names")
        /\ Get(ret.val, "slot_names") = List(arg.annotation.slot_names))
       <=> ~arg.skip_slots

C7_Witness ==
  /\ Returned("_build_image_annotation")
  /\ ret.exc = "none"
  /\ arg.annotation.annotation_class.annotation_type = "text"
  /\ arg.annotation.subs
       = <<SubAnnotation("text", Str("hello")), SubAnnotation("instance_id", Num(7))>>
  /\ arg.annotation.reviewers = List(<<Bob>>)
  /\ arg.skip_slots
  /\ Get(ret.val, "text") = Ref(arg.annotation.data)
  /\ Get(ret.val, "instance_id") = Dict(<< <<"value", Num(7)>> >>)

FrameKeys(frames) == {ToString(i) : i \in 1..Len(frames)}

\* C8: the payload _build_video_annotation returns holds every frame
\* (keyframe or not), no frame payload has a slot_names key, and name, the
\* annotation's own slot_names and the authorship block are in it, each in
\* place of whatever the aggregation had under that key.
C8_VideoMerge ==
  (Returned("_build_video_annotation") /\ ret.exc = "none") =>
    LET annotation == arg.annotation
        frames == Get(ret.val, "frames")[2]
    IN  /\ Keys(frames) = FrameKeys(annotation.frames)
        /\ \A i \in 1..Len(annotation.frames) :
             LET payload == Get(frames, ToString(i))[2]
                 frame == annotation.frames[i]
             IN  /\ ~HasKey(payload, "slot_names")
                 /\ Get(payload, "name") = Str(frame.annotation.annotation_class.name)
                 /\ Get(payload, TypeKey(frame.annotation.annotation_class))
                      = Ref(frame.annotation.data)
                 /\ Get(payload, "keyframe") = Bool(frame.keyframe)
        /\ Get(ret.val, "name") = Str(annotation.annotation_class.name)
        /\ Get(ret.val, "slot_names") = List(annotation.slot_names)
        /\ IF Authorship(annotation) # <<>>
             THEN Get(ret.val, "annotators") = Authorship(annotation)[1][2]
             ELSE HasKey(ret.val, "annotators") <=> HasKey(annotation.other, "annotators")
        /\ \A k \in Keys(annotation.other) \ {"name", "slot_names", "annotators", "frames"} :
             Get(ret.val, k) = Get(annotation.other, k)

C8_Witness ==
  /\ Returned("_build_video_annotation")
  /\ ret.exc = "none"
  /\ Len(arg.annotation.frames) = 2
  /\ ~arg.annotation.frames[1].keyframe
  /\ arg.annotation.frames[2].annotation.annotation_class = ComplexPolygon
  /\ HasKey(arg.annotation.other, "name")
  /\ arg.annotation.reviewers = List(<<Bob>>)
  /\ Get(ret.val, "name") = Str("car")

\* C3: when an image annotation has a sub-annotation of a kind other than
\* instance_id, attributes and text, _build_image_annotation returns without
\* raising, its payload has no key for that sub-annotation and has the entries
\* of the sub-annotations of the known kinds.
C3_UnknownKindDropped ==
  (/\ Returned("_build_image_annotation")
   /\ Kinds(arg.annotation.subs) \ KnownKinds # {}
   /\ \/ arg.annotation.annotation_class.annotation_type # "complex_polygon"
      \/ HasPaths(heap0[arg.annotation.data])) =>
    /\ ret.exc = "none"
    /\ Keys(ret.val) \cap (Kinds(arg.annotation.subs) \ KnownKinds) = {}
    /\ Kinds(arg.annotation.subs) \cap KnownKinds \subseteq Keys(ret.val)

\* C2: no builder changes a data mapping of its caller: after the call every
\* mapping has the keys and values it had before.
C2_InputsUnchanged == pc = "returned" => heap = heap0

-----------------------------------------------------------------------------
(* Properties of export, under Spec *)

\* the name section 4.1 gives the output file: the extension replaced by json
JsonName(filename) ==
  IF Len(filename) = 1
    THEN <<filename[1], "json">>
    ELSE [i \in 1..Len(filename) |->
            IF i = Len(filename) THEN "json" ELSE filename[i]]

OutputNames == {JsonName(annotation_files[i].filename) : i \in 1..Len(annotation_files)}

\* the last record of the sequence written to output name n
LastNamed(n) ==
  CHOOSE i \in 1..Len(annotation_files) :
    /\ JsonName(annotation_files[i].filename) = n
    /\ \A j \in (i + 1)..Len(annotation_files) :
         JsonName(annotation_files[j].filename) # n

\* the data mappings once the first k records of the call have been built
RECURSIVE HeapAfter(_)
HeapAfter(k) ==
  IF k = 0 THEN heap0
  ELSE _build_json(annotation_files[k], HeapAfter(k - 1)).heap

\* the text of the document export builds for record i in the first call
DocumentOf(i) ==
  json_dump(Dict(_build_json(annotation_files[i], HeapAfter(i - 1)).val),
            HeapAfter(i))

\* the text of the document of a record exported on its own
DocumentAlone(annotation_file) ==
  json_dump(Dict(_build_json(annotation_file, heap0).val),
            _build_json(annotation_file, heap0).heap)

FirstCallReturned == call = 1 /\ pc = "done"

\* C4 as stated: after export returns on N records and an empty directory, the
\* directory holds N files, one per record, named by the record's filename with
\* the extension replaced by json and holding the record's document.
C4_OneFilePerRecord ==
  FirstCallReturned =>
    /\ Cardinality(DOMAIN files) = Len(annotation_files)
    /\ \A i \in 1..Len(annotation_files) :
         /\ JsonName(annotation_files[i].filename) \in DOMAIN files
         /\ files[JsonName(annotation_files[i].filename)] = DocumentOf(i)

\* C4 as amended: after export returns, the directory holds exactly one file
\* per distinct output name of the records, and the file holds the document
\* built for the last record of the sequence with that output name; these are
\* N files when the N output names differ pairwise.
C4_OneFilePerName ==
  FirstCallReturned =>
    /\ DOMAIN files = OutputNames
    /\ \A n \in OutputNames : files[n] = DocumentOf(LastNamed(n))
    /\ Cardinality(OutputNames) = Len(annotation_files)
         => Cardinality(DOMAIN files) = Len(annotation_files)

C4_Witness ==
  /\ FirstCallReturned
  /\ Len(annotation_files) = 2
  /\ annotation_files[1].filename = <<"a", "png">>
  /\ annotation_files[2].filename = <<"a", "jpg">>
  /\ annotation_files[1].annotations # annotation_files[2].annotations
  /\ DOMAIN files = {<<"a", "json">>}
  /\ files[<<"a", "json">>] = DocumentOf(2)

\* C1: a second export of the same records into the same directory returns
\* and leaves every file as the first call wrote it.
C1_SecondExportIdentical ==
  (/\ call = 2
   /\ first.pc = "done"
   /\ pc \in {"done", "failed"}
   /\ exc # "OSError") =>
    /\ pc = "done"
    /\ files = first.files

\* C9: with pairwise distinct output names, the document written for a record
\* is the document of that record exported on its own, whatever was exported
\* before it (so the directory is the same for every processing order).
C9_FilesIndependent ==
  (FirstCallReturned /\ Cardinality(OutputNames) = Len(annotation_files)) =>
    \A i \in 1..Len(annotation_files) :
      files[JsonName(annotation_files[i].filename)]
        = DocumentAlone(annotation_files[i])

\* the directory after the writes the current call completed
RECURSIVE Overlay(_, _)
Overlay(dir, writes) ==
  IF writes = <<>> THEN dir
  ELSE Overlay((writes[1][1] :> writes[1][2]) @@ dir, Tail(writes))

Written == Overlay(base, log)

FailedName == JsonName(annotation_files[id + 1].filename)

SameAt(n) ==
  IF n \in DOMAIN Written
    THEN n \in DOMAIN files /\ files[n] = Written[n]
    ELSE n \notin DOMAIN files

BuildErrors == {"KeyError", "IndexError", "TypeError"}

\* C10 as stated: when record i fails, the error leaves export at once, the
\* files of records 0..i-1 are as written, no file of a later record exists,
\* and when the document could not be built no file of record i was created or
\* truncated and a mapping without paths is as it was.
C10_FailureLeavesEarlierFiles ==
  pc = "failed" =>
    /\ exc # "none"
    /\ Len(log) = id
    /\ \A j \in 1..Len(log) : SameAt(log[j][1])
    /\ \A n \in DOMAIN files : n \in DOMAIN Written \cup {FailedName}
    /\ exc \in BuildErrors => files = Written
    /\ (exc = "KeyError" /\ ~HasKey(heap0[bad], "paths")) => heap[bad] = heap0[bad]

\* C10 as amended: the same, but of the files of records 0..i-1 only those at
\* another output name than record i's are as written: a failed write leaves
\* the file at record i's output name created, truncated or as it was.
C10_FailureLeavesOtherFiles ==
  pc = "failed" =>
    /\ exc # "none"
    /\ Len(log) = id
    /\ \A n \in (DOMAIN files \cup DOMAIN Written) \ {FailedName} : SameAt(n)
    /\ \A n \in DOMAIN files : n \in DOMAIN Written \cup {FailedName}
    /\ exc \in BuildErrors => files = Written
    /\ (exc = "KeyError" /\ ~HasKey(heap0[bad], "paths")) => heap[bad] = heap0[bad]

C10_Witness ==
  /\ pc = "failed"
  /\ call = 1
  /\ exc = "KeyError"
  /\ id = 1
  /\ ~HasKey(heap0[bad], "paths")
  /\ annotation_files[1].filename = <<"a", "png">>
  /\ annotation_files[2].filename = <<"a", "jpg">>
  /\ DOMAIN files = {<<"a", "json">>}
  /\ files[<<"a", "json">>] = DocumentOf(1)

====
